---- MODULE Spec2Model ----
(***************************************************************************)
(* A model of VoxelCSG (src/src/lib.rs): a sparse octree of boolean voxels *)
(* (grid_tree's OctreeI32<bool>), the cube rasterizer, the CSG combinators *)
(* union / intersection / difference / invert, and the export traversal.   *)
(*                                                                         *)
(* A tree is a record [height, roots, nodes]: `roots` is the root map of   *)
(* the octree (keys at level height-1), `nodes` maps every allocated node  *)
(* key to its payload.  A node key is [level, coordinates]; coordinates    *)
(* are IVec3 values <<x, y, z>>.                                           *)
(***************************************************************************)
EXTENDS Integers, Sequences, FiniteSets, TLC

VARIABLES trees,   \* the VoxelCSG values the caller owns, by slot
          ops,     \* number of mutating calls made so far
          last     \* the last call: its arguments, the trees before it, its result

vars == <<trees, ops, last>>

(***************************************************************************)
(* Bounds of the model.                                                    *)
(***************************************************************************)
MaxX == 1          \* x coordinates range over -MaxX .. MaxX - 1
MaxY == 1          \* y coordinates range over 0 .. MaxY
MaxZ == 0          \* z coordinates range over 0 .. MaxZ
MaxHeight == 3     \* requested heights: 0 .. MaxHeight, and the same plus 2^8
MaxOps == 3        \* mutating calls (fills, in-place inverts) per run
MaxRadius == 2     \* sphere and cylinder radii range over -1.0 .. MaxRadius in steps of 0.5
MaxLength == 5     \* cylinder heights are -1, 0, 1 and MaxLength

Slots == {1, 2}

U8 == 256          \* `height as u8` keeps the requested height modulo 2^8

XS == (0 - MaxX) .. (MaxX - 1)
YS == 0 .. MaxY
ZS == 0 .. MaxZ

\* The voxel coordinates a fill can reach.
Coords == {<<x, y, z>> : x \in XS, y \in YS, z \in ZS}

\* The coordinates the properties read: Coords and one more layer around it.
Probes == {<<x, y, z>> : x \in (0 - MaxX - 1) .. MaxX, y \in 0 .. (MaxY + 1), z \in 0 .. (MaxZ + 1)}

\* The corners fill_cube is called with.  max is exclusive, so it may lie one
\* past the last coordinate; on the x axis every pair is drawn (min < max,
\* min = max and min > max), on the y and z axes the box starts at 0.
MinCorners == {<<x, 0, 0>> : x \in XS}
MaxCorners == {<<x, y, z>> : x \in (0 - MaxX) .. MaxX, y \in 1 .. (MaxY + 1), z \in 1 .. (MaxZ + 1)}

\* The heights VoxelCSG::new is called with (u32 values).
Heights == (0 .. MaxHeight) \cup {U8 + h : h \in 0 .. MaxHeight}

(***************************************************************************)
(* grid_tree: keys and addressing.                                         *)
(***************************************************************************)
NodeKey(level, coordinates) == [level |-> level, coordinates |-> coordinates]

RECURSIVE Pow2(_)
Pow2(k) == IF k = 0 THEN 1 ELSE 2 * Pow2(k - 1)

\* i32 >> k: arithmetic shift, i.e. division by 2^k rounding down.
Shr(a, k) == a \div Pow2(k)

\* The coordinates of the ancestor `levels_up` levels above.
ancestor_coordinates(c, levels_up) ==
    <<Shr(c[1], levels_up), Shr(c[2], levels_up), Shr(c[3], levels_up)>>

\* The coordinates of the first child of a node.
min_child_coordinates(c) == <<2 * c[1], 2 * c[2], 2 * c[3]>>

root_level(t) == t.height - 1

ancestor_root_key(t, key) ==
    NodeKey(root_level(t), ancestor_coordinates(key.coordinates, root_level(t) - key.level))

\* Option<T> is a set with at most one element.
None == {}
Some(v) == {v}
Unwrap(o) == CHOOSE v \in o : TRUE

(***************************************************************************)
(* grid_tree: storage.                                                     *)
(***************************************************************************)
EmptyNodes == [k \in {} |-> TRUE]

\* OctreeI32::new(height): requires height > 1.
OctreeNew(height) == [height |-> height, roots |-> {}, nodes |-> EmptyNodes]

get_value(t, ptr) == IF ptr \in DOMAIN t.nodes THEN Some(t.nodes[ptr]) ELSE None

find_root(t, key) == IF key \in t.roots THEN Some(key) ELSE None

\* Descend from an existing ancestor to the node at descendant_key, one child
\* pointer at a time; absent as soon as a child on the way is missing.
RECURSIVE find_descendant(_, _, _)
find_descendant(t, ancestor, descendant_key) ==
    LET child_level == ancestor.level - 1
        child == NodeKey(child_level,
                         ancestor_coordinates(descendant_key.coordinates,
                                              child_level - descendant_key.level))
    IN  IF child \notin DOMAIN t.nodes THEN None
        ELSE IF child_level = descendant_key.level THEN Some(child)
        ELSE find_descendant(t, child, descendant_key)

find_node(t, key) ==
    IF key.level = root_level(t) THEN find_root(t, key)
    ELSE LET root == find_root(t, ancestor_root_key(t, key))
         IN  IF root = None THEN None ELSE find_descendant(t, Unwrap(root), key)

\* A variant of or_insert_with: the payload v is written whether or not the
\* entry is occupied.
insert_overwriting(nodes, key, v) ==
    [k \in DOMAIN nodes \cup {key} |-> IF k = key THEN v ELSE nodes[k]]

\* entry.or_insert_with(|| v): allocate the node with payload v only if the
\* entry is vacant; an occupied entry is left as it is.
or_insert_with(nodes, key, v) ==
    IF key \in DOMAIN nodes THEN nodes
    ELSE [k \in DOMAIN nodes \cup {key} |-> IF k = key THEN v ELSE nodes[k]]

\* fill_path_to_node from the node at `level` down to target_key, the filler
\* being `entry.or_insert_with(|| v); Continue`.
RECURSIVE fill_path_to_node(_, _, _, _)
fill_path_to_node(nodes, level, target_key, v) ==
    IF level <= target_key.level THEN nodes
    ELSE LET child_level == level - 1
             child == NodeKey(child_level,
                              ancestor_coordinates(target_key.coordinates,
                                                   child_level - target_key.level))
         IN  fill_path_to_node(or_insert_with(nodes, child, v), child_level, target_key, v)

\* A variant of fill_path_to_node_from_root: only the entry of target_key is
\* filled, none of the nodes above it.
fill_target_only(t, target_key, v) == [t EXCEPT !.nodes = or_insert_with(t.nodes, target_key, v)]

\* fill_path_to_node_from_root(target_key, |_, entry| { entry.or_insert_with(|| v); Continue })
fill_path_to_node_from_root(t, target_key, v) ==
    LET root == ancestor_root_key(t, target_key)
        filled == or_insert_with(t.nodes, root, v)
    IN  [t EXCEPT !.roots = t.roots \cup {root},
                  !.nodes = fill_path_to_node(filled, root.level, target_key, v)]

(***************************************************************************)
(* VoxelCSG::new and get_voxel.                                            *)
(***************************************************************************)
\* VoxelCSG::new(height: u32): OctreeI32::new(height as u8), which panics
\* unless the u8 height is > 1.
New(height) ==
    LET h8 == height % U8
    IN  IF h8 > 1 THEN [ok |-> TRUE, tree |-> OctreeNew(h8)]
        ELSE [ok |-> FALSE, tree |-> OctreeNew(0)]

\* A variant of get_voxel: a coordinate with no node reads true.
get_voxel_absent_true(t, coords) ==
    LET key == NodeKey(0, coords)
        found == find_node(t, key)
    IN  IF found # None /\ get_value(t, Unwrap(found)) # None
        THEN Unwrap(get_value(t, Unwrap(found)))
        ELSE TRUE

get_voxel(t, coords) ==
    LET key == NodeKey(0, coords)
        found == find_node(t, key)
    IN  IF found # None /\ get_value(t, Unwrap(found)) # None
        THEN Unwrap(get_value(t, Unwrap(found)))
        ELSE FALSE

(***************************************************************************)
(* grid_tree: traversal.                                                   *)
(***************************************************************************)
\* The offset of the child with index i (0..7) in its parent's 2x2x2 block.
delinearize_child(i) == <<i % 2, (i \div 2) % 2, i \div 4>>

\* visit_children_with_coordinates: the existing children of a node, in child
\* index order.
children_with_coordinates(t, key) ==
    LET m == min_child_coordinates(key.coordinates)
        slot(i) == LET o == delinearize_child(i - 1)
                   IN  NodeKey(key.level - 1, <<m[1] + o[1], m[2] + o[2], m[3] + o[3]>>)
        exists(k) == k \in DOMAIN t.nodes
    IN  SelectSeq([i \in 1 .. 8 |-> slot(i)], exists)

\* The stack loop of visit_tree_depth_first with a visitor that always
\* answers Continue: pop, visit, push the children while above min_level.
\* Yields the nodes in the order the visitor sees them.
RECURSIVE depth_first_loop(_, _, _, _)
depth_first_loop(t, stack, min_level, visited) ==
    IF stack = <<>> THEN visited
    ELSE LET parent == stack[Len(stack)]
             rest == SubSeq(stack, 1, Len(stack) - 1)
             pushed == IF parent.level > min_level
                       THEN rest \o children_with_coordinates(t, parent)
                       ELSE rest
         IN  depth_first_loop(t, pushed, min_level, Append(visited, parent))

visit_tree_depth_first(t, root, min_level) == depth_first_loop(t, <<root>>, min_level, <<>>)

\* iter_roots walks a hash map: any order of the roots, each exactly once.
iter_roots(t) ==
    {o \in [1 .. Cardinality(t.roots) -> t.roots] :
        \A i, j \in 1 .. Cardinality(t.roots) : i # j => o[i] # o[j]}

(***************************************************************************)
(* Rasterizer: fill_cube.                                                  *)
(***************************************************************************)
\* A variant of RangeLen: the range taken as inclusive (a..=b).
RangeLenInclusive(a, b) == IF b >= a THEN b - a + 1 ELSE 0

\* The length of the Rust range a..b.
RangeLen(a, b) == IF b > a THEN b - a ELSE 0

\* The coordinates the three nested loops of fill_cube produce, in order
\* (z outermost, x innermost).
cube_coords(min, max) ==
    LET nx == RangeLen(min[1], max[1])
        ny == RangeLen(min[2], max[2])
        nz == RangeLen(min[3], max[3])
    IN  [i \in 1 .. (nx * ny * nz) |->
            <<min[1] + ((i - 1) % nx),
              min[2] + (((i - 1) \div nx) % ny),
              min[3] + ((i - 1) \div (nx * ny))>>]

\* The body of the loops: turn on one voxel.
fill_voxel(t, coord) == fill_path_to_node_from_root(t, NodeKey(0, coord), TRUE)

RECURSIVE fill_coords(_, _, _)
fill_coords(t, coords, i) ==
    IF i > Len(coords) THEN t
    ELSE LET filled == fill_voxel(t, coords[i])
         IN  \* the tree of this iteration is complete (it has the root of
             \* coords[i]) before the next iteration starts
             IF filled.roots = {} THEN filled
             ELSE fill_coords(filled, coords, i + 1)

fill_cube(t, min, max) == fill_coords(t, cube_coords(min, max), 1)

(***************************************************************************)
(* Rasterizers: fill_sphere and fill_cylinder.  A radius (f32) is given in *)
(* half units: the number r2 stands for the f32 value r2 / 2, so that      *)
(* radius * radius and the squared distances are exact in f32.             *)
(***************************************************************************)
\* radius.ceil() as i32
r_ceil(r2) == (r2 + 1) \div 2

\* dist2 as f32 <= radius * radius, both sides multiplied by 4.
within_radius(dist2, r2) == 4 * dist2 <= r2 * r2

\* (p - center).dot(p - center)
dot_self(p, center) ==
    (p[1] - center[1]) * (p[1] - center[1]) + (p[2] - center[2]) * (p[2] - center[2])
        + (p[3] - center[3]) * (p[3] - center[3])

\* The coordinates of three nested loops over the inclusive ranges
\* min.z..=max.z, min.y..=max.y, min.x..=max.x.
box_inclusive_coords(min, max) == cube_coords(min, <<max[1] + 1, max[2] + 1, max[3] + 1>>)

fill_sphere(t, center, r2) ==
    LET c == r_ceil(r2)
        min == <<center[1] - c, center[2] - c, center[3] - c>>
        max == <<center[1] + c, center[2] + c, center[3] + c>>
        inside(p) == within_radius(dot_self(p, center), r2)
    IN  fill_coords(t, SelectSeq(box_inclusive_coords(min, max), inside), 1)

fill_cylinder(t, base_center_xy, height, r2) ==
    LET c == r_ceil(r2)
        top_z == base_center_xy[3] + height
        min == <<base_center_xy[1] - c, base_center_xy[2] - c, base_center_xy[3]>>
        max == <<base_center_xy[1] + c, base_center_xy[2] + c, top_z - 1>>
        inside(p) ==
            LET dx == p[1] - base_center_xy[1]
                dy == p[2] - base_center_xy[2]
            IN  within_radius(dx * dx + dy * dy, r2)
    IN  fill_coords(t, SelectSeq(box_inclusive_coords(min, max), inside), 1)

(***************************************************************************)
(* Traversal of the true leaves, shared by the combinators, the export     *)
(* and the tests' count.                                                   *)
(***************************************************************************)
\* A variant of is_true_leaf: the payload is not looked at.
is_any_leaf(t, ptr) == ptr.level = 0

\* The visitor's test: a level-0 node whose payload is true.
is_true_leaf(t, ptr) ==
    /\ ptr.level = 0
    /\ get_value(t, ptr) # None
    /\ Unwrap(get_value(t, ptr))

\* A variant of true_leaves: a root whose own payload is false is skipped with
\* everything below it.
RECURSIVE true_leaves_under_true_roots(_, _, _)
true_leaves_under_true_roots(t, order, i) ==
    IF i > Len(order) THEN <<>>
    ELSE LET keep(ptr) == is_true_leaf(t, ptr)
         IN  (IF t.nodes[order[i]]
              THEN SelectSeq(visit_tree_depth_first(t, order[i], 0), keep)
              ELSE <<>>)
                 \o true_leaves_under_true_roots(t, order, i + 1)

\* The true leaves in the order the loops over iter_roots and
\* visit_tree_depth_first(.., 0, ..) meet them, for the root order `order`.
RECURSIVE true_leaves(_, _, _)
true_leaves(t, order, i) ==
    IF i > Len(order) THEN <<>>
    ELSE LET keep(ptr) == is_true_leaf(t, ptr)
         IN  SelectSeq(visit_tree_depth_first(t, order[i], 0), keep)
                 \o true_leaves(t, order, i + 1)

\* result.tree.fill_path_to_node_from_root(..) for each coordinate of `leaves`.
RECURSIVE fill_leaves(_, _, _)
fill_leaves(result, leaves, i) ==
    IF i > Len(leaves) THEN result
    ELSE fill_leaves(fill_voxel(result, leaves[i].coordinates), leaves, i + 1)

Max(a, b) == IF a >= b THEN a ELSE b

(***************************************************************************)
(* CSG combinators.  Each yields the trees it was given, as it leaves      *)
(* them, together with its result.                                         *)
(***************************************************************************)
\* The fresh result tree of a combinator: VoxelCSG::new(max of the heights).
new_result(self, other) == New(Max(self.height, other.height)).tree

\* The closure copy_true_leaves of union.
copy_true_leaves(result, src, order) == fill_leaves(result, true_leaves(src, order, 1), 1)

\* A variant of union: the second copy_true_leaves call is missing.
union_self_only(self, other, order_self, order_other) ==
    [self |-> self, other |-> other,
     result |-> copy_true_leaves(new_result(self, other), self, order_self)]

union(self, other, order_self, order_other) ==
    LET copied == copy_true_leaves(new_result(self, other), self, order_self)
    IN  [self |-> self, other |-> other,
         result |-> copy_true_leaves(copied, other, order_other)]

\* A variant of intersection: `other` is not queried.
intersection_unchecked(self, other, order_self) ==
    [self |-> self, other |-> other,
     result |-> fill_leaves(new_result(self, other), true_leaves(self, order_self, 1), 1)]

intersection(self, other, order_self) ==
    LET keep(ptr) == get_voxel(other, ptr.coordinates)
    IN  [self |-> self, other |-> other,
         result |-> fill_leaves(new_result(self, other),
                                SelectSeq(true_leaves(self, order_self, 1), keep), 1)]

\* A variant of difference: a voxel is dropped only when `other` has a node
\* for it, whatever that node's payload.
difference_by_presence(self, other, order_self) ==
    LET keep(ptr) == find_node(other, NodeKey(0, ptr.coordinates)) = None
    IN  [self |-> self, other |-> other,
         result |-> fill_leaves(new_result(self, other),
                                SelectSeq(true_leaves(self, order_self, 1), keep), 1)]

difference(self, other, order_self) ==
    LET keep(ptr) == ~get_voxel(other, ptr.coordinates)
    IN  [self |-> self, other |-> other,
         result |-> fill_leaves(new_result(self, other),
                                SelectSeq(true_leaves(self, order_self, 1), keep), 1)]

\* A variant of all_nodes: the roots are gathered and nothing below them.
all_nodes_roots_only(t, order, i) == SubSeq(order, i, Len(order))

\* The gathering loop of invert_in_place: every node under every root, by an
\* explicit stack, descending while the level is above 0.
RECURSIVE all_nodes(_, _, _)
all_nodes(t, order, i) ==
    IF i > Len(order) THEN <<>>
    ELSE depth_first_loop(t, <<order[i]>>, 0, <<>>) \o all_nodes(t, order, i + 1)

\* A variant of flip_nodes: *value = false for each pointer.
RECURSIVE flip_nodes_clear(_, _, _)
flip_nodes_clear(nodes, ptrs, i) ==
    IF i > Len(ptrs) THEN nodes
    ELSE flip_nodes_clear(IF ptrs[i] \in DOMAIN nodes
                          THEN [nodes EXCEPT ![ptrs[i]] = FALSE]
                          ELSE nodes,
                          ptrs, i + 1)

\* The flipping loop of invert_in_place: *value = !*value for each pointer.
RECURSIVE flip_nodes(_, _, _)
flip_nodes(nodes, ptrs, i) ==
    IF i > Len(ptrs) THEN nodes
    ELSE flip_nodes(IF ptrs[i] \in DOMAIN nodes
                    THEN [nodes EXCEPT ![ptrs[i]] = ~nodes[ptrs[i]]]
                    ELSE nodes,
                    ptrs, i + 1)

\* A variant of invert_in_place: the nodes that are false after the flip are
\* removed from the tree.
invert_in_place_pruning(t, order) ==
    LET flipped == flip_nodes(t.nodes, all_nodes(t, order, 1), 1)
        kept == {k \in DOMAIN flipped : flipped[k]}
    IN  [t EXCEPT !.roots = t.roots \cap kept, !.nodes = [k \in kept |-> flipped[k]]]

invert_in_place(t, order) == [t EXCEPT !.nodes = flip_nodes(t.nodes, all_nodes(t, order, 1), 1)]

\* A variant of invert: the tree itself is inverted, not a clone of it.
invert_without_clone(self, order) ==
    [self |-> invert_in_place(self, order), result |-> invert_in_place(self, order)]

\* invert: clone, then invert the clone in place.
invert(self, order) ==
    LET result == self
    IN  [self |-> self, result |-> invert_in_place(result, order)]

(***************************************************************************)
(* Export and the tests' count.                                            *)
(***************************************************************************)
\* save_to_magicavoxel: the add_voxel(x, y, z, 255) calls, in order.
save_to_magicavoxel(t, order) ==
    LET leaves == true_leaves(t, order, 1)
    IN  [i \in 1 .. Len(leaves) |-> leaves[i].coordinates]

count_filled_voxels(t, order) == Len(true_leaves(t, order, 1))

(***************************************************************************)
(* The caller: two VoxelCSG values, and one call at a time.                *)
(***************************************************************************)
NoTree == OctreeNew(0)

NoCall ==
    [op |-> "none", self |-> 0, other |-> 0, req |-> 0, ok |-> TRUE,
     min |-> <<0, 0, 0>>, max |-> <<0, 0, 0>>,
     pre |-> [i \in Slots |-> NoTree], pre2 |-> NoTree,
     result |-> NoTree, out |-> <<>>, count |-> 0, value |-> FALSE,
     radius |-> 0, height |-> 0]

Call(op, self, other) == [NoCall EXCEPT !.op = op, !.self = self, !.other = other, !.pre = trees]

constructed(i) == trees[i] # NoTree

Init ==
    /\ trees = [i \in Slots |-> NoTree]
    /\ ops = 0
    /\ last = NoCall

\* let csg = VoxelCSG::new(height)
Construct(i, height) ==
    LET r == New(height)
    IN  /\ ~constructed(i)
        /\ trees' = IF r.ok THEN [trees EXCEPT ![i] = r.tree] ELSE trees
        /\ last' = [Call("new", i, 0) EXCEPT !.req = height, !.ok = r.ok, !.result = r.tree]
        /\ UNCHANGED ops

\* csg.fill_cube(min, max)
FillCube(i, min, max) ==
    /\ constructed(i)
    /\ ops < MaxOps
    /\ trees' = [trees EXCEPT ![i] = fill_cube(trees[i], min, max)]
    /\ last' = [Call("fill_cube", i, 0) EXCEPT !.min = min, !.max = max]
    /\ ops' = ops + 1

\* csg.invert_in_place()
InvertInPlace(i) ==
    /\ constructed(i)
    /\ ops < MaxOps
    /\ \E order \in iter_roots(trees[i]) :
          trees' = [trees EXCEPT ![i] = invert_in_place(trees[i], order)]
    /\ last' = [Call("invert_in_place", i, 0) EXCEPT
                   !.pre2 = IF last.op = "invert_in_place" /\ last.self = i
                            THEN last.pre[i] ELSE NoTree]
    /\ ops' = ops + 1

\* let inverted = csg.invert()
Invert(i) ==
    /\ constructed(i)
    /\ \E order \in iter_roots(trees[i]) :
          LET r == invert(trees[i], order)
          IN  /\ trees' = [trees EXCEPT ![i] = r.self]
              /\ last' = [Call("invert", i, 0) EXCEPT !.result = r.result]
    /\ UNCHANGED ops

Combined(op, i, j, r) ==
    /\ i # j
    /\ trees' = [trees EXCEPT ![i] = r.self, ![j] = r.other]
    /\ last' = [Call(op, i, j) EXCEPT !.result = r.result]
    /\ UNCHANGED ops

\* let c = a.union(&b)
Union(i, j) ==
    /\ constructed(i) /\ constructed(j)
    /\ \E o1 \in iter_roots(trees[i]), o2 \in iter_roots(trees[j]) :
        Combined("union", i, j, union(trees[i], trees[j], o1, o2))

\* let c = a.intersection(&b)
Intersection(i, j) ==
    /\ constructed(i) /\ constructed(j)
    /\ \E o1 \in iter_roots(trees[i]) :
        Combined("intersection", i, j, intersection(trees[i], trees[j], o1))

\* let c = a.difference(&b)
Difference(i, j) ==
    /\ constructed(i) /\ constructed(j)
    /\ \E o1 \in iter_roots(trees[i]) :
        Combined("difference", i, j, difference(trees[i], trees[j], o1))

Combinators == {"union", "intersection", "difference", "invert"}

\* The tree a call of save_to_magicavoxel is made on: one of the caller's
\* trees, or (src = 0) the tree the last combinator returned.
Saved(src) == IF src = 0 THEN last.result ELSE trees[src]

\* csg.save_to_magicavoxel(path), and count_filled_voxels(&csg)
Save(src) ==
    /\ IF src = 0 THEN last.op \in Combinators ELSE constructed(src)
    /\ \E order \in iter_roots(Saved(src)) :
          last' = [Call("save", src, 0) EXCEPT
                      !.result = Saved(src),
                      !.out = save_to_magicavoxel(Saved(src), order),
                      !.count = count_filled_voxels(Saved(src), order)]
    /\ UNCHANGED <<trees, ops>>

Next ==
    \/ \E i \in Slots, h \in Heights : Construct(i, h)
    \/ \E i \in Slots, min \in MinCorners, max \in MaxCorners : FillCube(i, min, max)
    \/ \E i \in Slots : InvertInPlace(i)
    \/ \E i \in Slots : Invert(i)
    \/ \E i, j \in Slots : Union(i, j)
    \/ \E i, j \in Slots : Intersection(i, j)
    \/ \E i, j \in Slots : Difference(i, j)
    \/ \E src \in Slots \cup {0} : Save(src)

Spec == Init /\ [][Next]_vars

(***************************************************************************)
(* A caller with one VoxelCSG that fills, inverts and queries it.          *)
(***************************************************************************)
\* let v = csg.get_voxel(coords)
GetVoxel(i, coords) ==
    /\ constructed(i)
    /\ last' = [Call("get_voxel", i, 0) EXCEPT !.min = coords, !.value = get_voxel(trees[i], coords)]
    /\ UNCHANGED <<trees, ops>>

NextQuery ==
    \/ \E h \in Heights : Construct(1, h)
    \/ \E min \in MinCorners, max \in MaxCorners : FillCube(1, min, max)
    \/ InvertInPlace(1)
    \/ \E p \in Probes : GetVoxel(1, p)

SpecQuery == Init /\ [][NextQuery]_vars

(***************************************************************************)
(* A caller that rasterizes spheres, and one that rasterizes cylinders.    *)
(***************************************************************************)
\* The radii, in half units: -1.0, -0.5, 0.0, 0.5, .. MaxRadius.
Radii == (0 - 2) .. (2 * MaxRadius)

Centers == {<<0, 0, 0>>, <<0 - MaxX, 0, 0>>}

Lengths == {0 - 1, 0, 1, MaxLength}

\* The coordinates the properties of the spheres and cylinders read.
WideProbes ==
    {<<x, y, z>> : x \in (0 - MaxRadius - MaxX - 1) .. (MaxRadius + 1),
                   y \in (0 - MaxRadius - 1) .. (MaxRadius + 1),
                   z \in (0 - MaxRadius - 1) .. (MaxRadius + MaxLength)}

\* csg.fill_sphere(center, radius)
FillSphere(i, center, r2) ==
    /\ constructed(i)
    /\ ops < MaxOps
    /\ trees' = [trees EXCEPT ![i] = fill_sphere(trees[i], center, r2)]
    /\ last' = [Call("fill_sphere", i, 0) EXCEPT !.min = center, !.radius = r2]
    /\ ops' = ops + 1

\* csg.fill_cylinder(base_center_xy, height, radius)
FillCylinder(i, base, height, r2) ==
    /\ constructed(i)
    /\ ops < MaxOps
    /\ trees' = [trees EXCEPT ![i] = fill_cylinder(trees[i], base, height, r2)]
    /\ last' = [Call("fill_cylinder", i, 0) EXCEPT !.min = base, !.radius = r2, !.height = height]
    /\ ops' = ops + 1

NextSphere ==
    \/ \E h \in Heights : Construct(1, h)
    \/ \E center \in Centers, r2 \in Radii : FillSphere(1, center, r2)

SpecSphere == Init /\ [][NextSphere]_vars

NextCylinder ==
    \/ \E h \in Heights : Construct(1, h)
    \/ \E height \in Lengths, r2 \in Radii : FillCylinder(1, <<0, 0, 0>>, height, r2)

SpecCylinder == Init /\ [][NextCylinder]_vars

(***************************************************************************)
(* Properties.                                                             *)
(***************************************************************************)
\* The trees the last call was given, as they were before it.
SelfBefore == last.pre[last.self]
OtherBefore == last.pre[last.other]

\* A level-0 node exists at p and its payload is false.
stored_false(t, p) == find_node(t, NodeKey(0, p)) # None /\ ~get_voxel(t, p)

\* p lies in the half-open box [min, max).
InBox(p, min, max) == \A a \in 1 .. 3 : min[a] <= p[a] /\ p[a] < max[a]

IntersectionReadsAnd ==
    last.op = "intersection" =>
        \A p \in Probes :
            get_voxel(last.result, p) = (get_voxel(SelfBefore, p) /\ get_voxel(OtherBefore, p))

\* C2 witness: an intersection of trees of different heights with a coordinate
\* true in both, one true only in the scanned tree and one true only in the
\* other tree.
IntersectionWitness ==
    /\ last.op = "intersection"
    /\ SelfBefore.height # OtherBefore.height
    /\ \E p, q, r \in Coords :
          /\ get_voxel(SelfBefore, p) /\ get_voxel(OtherBefore, p) /\ get_voxel(last.result, p)
          /\ get_voxel(SelfBefore, q) /\ ~get_voxel(OtherBefore, q)
          /\ ~get_voxel(SelfBefore, r) /\ get_voxel(OtherBefore, r)

\* C3: after a.difference(&b), the result reads true at a coordinate exactly
\* when a reads true and b reads false there, b reading false both where it has
\* no node and where its node is false.
DifferenceReadsAndNot ==
    last.op = "difference" =>
        \A p \in Probes :
            get_voxel(last.result, p) = (get_voxel(SelfBefore, p) /\ ~get_voxel(OtherBefore, p))

\* C3 witness: a difference where a is true at a coordinate b stores false, and
\* at a coordinate b has no node for; both are kept.
DifferenceWitness ==
    /\ last.op = "difference"
    /\ \E p, q \in Coords :
          /\ get_voxel(SelfBefore, p) /\ stored_false(OtherBefore, p) /\ get_voxel(last.result, p)
          /\ get_voxel(SelfBefore, q) /\ find_node(OtherBefore, NodeKey(0, q)) = None
          /\ get_voxel(last.result, q)

\* C4: union, intersection, difference and invert leave every tree of the
\* caller (nodes and payloads) as it was before the call, and invert_in_place
\* changes no tree but the one it is called on.
CombinatorsKeepInputs ==
    /\ last.op \in Combinators => trees = last.pre
    /\ last.op = "invert_in_place" =>
          \A i \in Slots : i # last.self => trees[i] = last.pre[i]

\* C4 witness: invert was called on a tree with filled voxels, returned a tree
\* that reads differently, and the tree it was called on still has them.
InvertCopyWitness ==
    /\ last.op = "invert"
    /\ \E p \in Coords : get_voxel(trees[last.self], p) /\ ~get_voxel(last.result, p)

\* C5: after two invert_in_place calls in a row on a tree, every node payload,
\* and so every get_voxel, is what it was before the first of them.
DoubleInvertRestores ==
    (last.op = "invert_in_place" /\ last.pre2 # NoTree) =>
        /\ trees[last.self] = last.pre2
        /\ \A p \in Probes : get_voxel(trees[last.self], p) = get_voxel(last.pre2, p)

\* C5 witness: the second of two inverts in a row, on a tree with a filled
\* voxel that the first invert had turned off.
DoubleInvertWitness ==
    /\ last.op = "invert_in_place"
    /\ last.pre2 # NoTree
    /\ \E p \in Coords : get_voxel(last.pre2, p) /\ ~get_voxel(SelfBefore, p)

\* C6: fill_cube(min, max) on an empty tree makes get_voxel true exactly on the
\* half-open box [min, max), and creates no node when the box is empty.
FillCubeFromEmptyExact ==
    (last.op = "fill_cube" /\ SelfBefore.nodes = EmptyNodes) =>
        /\ \A p \in Probes : get_voxel(trees[last.self], p) = InBox(p, last.min, last.max)
        /\ (\E a \in 1 .. 3 : last.min[a] >= last.max[a]) => trees[last.self] = SelfBefore

\* C6 witness: a fill of an empty tree with a box that holds a negative and a
\* non-negative x and leaves a coordinate out.
FillCubeFromEmptyWitness ==
    /\ last.op = "fill_cube"
    /\ SelfBefore.nodes = EmptyNodes
    /\ \E p, q, r \in Coords :
          /\ p[1] < 0 /\ InBox(p, last.min, last.max) /\ get_voxel(trees[last.self], p)
          /\ q[1] >= 0 /\ InBox(q, last.min, last.max) /\ get_voxel(trees[last.self], q)
          /\ ~InBox(r, last.min, last.max) /\ ~get_voxel(trees[last.self], r)

\* C7: when fill_cube(min, max) returns, whatever the tree was before, every
\* coordinate of [min, max) reads true.
FillCubeTurnsOn ==
    last.op = "fill_cube" =>
        \A p \in Probes : InBox(p, last.min, last.max) => get_voxel(trees[last.self], p)

\* The coordinates at which a tree reads true.
Filled(t) == {p \in Probes : get_voxel(t, p)}

\* C8: the points save_to_magicavoxel emits, and the tests' count, are exactly
\* the coordinates at which get_voxel is true, each once.
ExportExact ==
    last.op = "save" =>
        /\ \A i, j \in 1 .. Len(last.out) : i # j => last.out[i] # last.out[j]
        /\ {last.out[i] : i \in 1 .. Len(last.out)} = Filled(last.result)
        /\ last.count = Cardinality(Filled(last.result))

\* C8 witness: an export of a tree with two roots, several true leaves and a
\* leaf that is stored false.
ExportWitness ==
    /\ last.op = "save"
    /\ Cardinality(last.result.roots) >= 2
    /\ Len(last.out) >= 2
    /\ \E q \in Coords : stored_false(last.result, q)

\* C9: VoxelCSG::new(height) fails and leaves no tree when height <= 1, and
\* for every height > 1 succeeds with an empty tree: no roots, no filled voxel.
NewFailsOnlyBelowTwo ==
    last.op = "new" =>
        IF last.req <= 1
        THEN ~last.ok /\ ~constructed(last.self)
        ELSE /\ last.ok /\ constructed(last.self)
             /\ trees[last.self].roots = {}
             /\ Filled(trees[last.self]) = {}

\* C10: for every requested height h > 1, the tree VoxelCSG::new(h) yields has
\* height h: the height kept after the conversion to 8 bits is the requested one.
NewKeepsHeight ==
    (last.op = "new" /\ last.req > 1 /\ last.ok) => trees[last.self].height = last.req

\* C11: get_voxel(p) always returns a boolean: the payload of the level-0 node
\* at p when the tree holds one, and false when it holds none.
GetVoxelTotal ==
    last.op = "get_voxel" =>
        LET t == trees[last.self]
            key == NodeKey(0, last.min)
        IN  /\ last.value \in BOOLEAN
            /\ last.value = (IF key \in DOMAIN t.nodes THEN t.nodes[key] ELSE FALSE)

\* C11 witness: a query answered false from a node that is stored false, on a
\* tree that also has a true leaf and coordinates with no node.
GetVoxelWitness ==
    /\ last.op = "get_voxel"
    /\ stored_false(trees[last.self], last.min)
    /\ ~last.value
    /\ \E p, q \in Probes :
          /\ get_voxel(trees[last.self], p)
          /\ NodeKey(0, q) \notin DOMAIN trees[last.self].nodes

\* The coordinates of WideProbes at which a tree reads true.
WideFilled(t) == {p \in WideProbes : get_voxel(t, p)}

\* fill_sphere(center, radius) on an empty tree makes get_voxel true exactly at
\* the coordinates within the radius of the center.
SphereExact ==
    \A p \in WideProbes :
        get_voxel(trees[last.self], p) = (4 * dot_self(p, last.min) <= last.radius * last.radius)

\* The example of the sphere of radius 2.0 at the origin.
SphereExample ==
    (last.min = <<0, 0, 0>> /\ last.radius = 4) =>
        /\ get_voxel(trees[last.self], <<1, 0, 0>>)
        /\ ~get_voxel(trees[last.self], <<3, 0, 0>>)
        /\ ~get_voxel(trees[last.self], <<2, 2, 0>>)
        /\ Cardinality(WideFilled(trees[last.self])) \in 25 .. 49

FillSphereNonNegativeExact ==
    (last.op = "fill_sphere" /\ SelfBefore.nodes = EmptyNodes /\ last.radius >= 0) =>
        (SphereExact /\ SphereExample)

\* fill_cylinder(base, height, radius) on an empty tree makes get_voxel true
\* exactly in the slices base.z <= z < base.z + height, within the radius of
\* the axis; a height <= 0 leaves the tree without a node.
CylinderExact ==
    /\ \A p \in WideProbes :
          get_voxel(trees[last.self], p) =
              /\ last.min[3] <= p[3] /\ p[3] < last.min[3] + last.height
              /\ 4 * ((p[1] - last.min[1]) * (p[1] - last.min[1])
                        + (p[2] - last.min[2]) * (p[2] - last.min[2]))
                     <= last.radius * last.radius
    /\ last.height <= 0 => trees[last.self] = SelfBefore

\* The example of the cylinder of height 5 and radius 2.0 at the origin.
CylinderExample ==
    (last.min = <<0, 0, 0>> /\ last.height = 5 /\ last.radius = 4) =>
        /\ get_voxel(trees[last.self], <<1, 1, 2>>)
        /\ ~get_voxel(trees[last.self], <<3, 0, 1>>)
        /\ ~get_voxel(trees[last.self], <<1, 1, 5>>)

FillCylinderNonNegativeExact ==
    (last.op = "fill_cylinder" /\ SelfBefore.nodes = EmptyNodes /\ last.radius >= 0) =>
        (CylinderExact /\ CylinderExample)

\* The entries one fill_path_to_node_from_root call visits for target_key: the
\* root above it and each node on the way down to it.
path_keys(t, target_key) ==
    {NodeKey(l, ancestor_coordinates(target_key.coordinates, l - target_key.level)) :
        l \in target_key.level .. root_level(t)}

\* How often the initializer `|| true` runs in one path fill: or_insert_with
\* runs it for the vacant entries only.
initializer_calls(t, target_key) ==
    Cardinality({k \in path_keys(t, target_key) : k \notin DOMAIN t.nodes})

\* How often the initializer runs in the loop of a rasterizer over coords.
RECURSIVE fill_initializer_calls(_, _, _)
fill_initializer_calls(t, coords, i) ==
    IF i > Len(coords) THEN 0
    ELSE initializer_calls(t, NodeKey(0, coords[i]))
             + fill_initializer_calls(fill_voxel(t, coords[i]), coords, i + 1)

\* The nodes a call created in the tree it was called on.
Created == DOMAIN trees[last.self].nodes \ DOMAIN SelfBefore.nodes

Inverted == IF last.op = "invert" THEN last.result ELSE trees[last.self]

\* The elements of a sequence.
Range(seq) == {seq[i] : i \in 1 .. Len(seq)}

\* No element occurs twice in the sequence.
NoDuplicates(seq) == \A i, j \in 1 .. Len(seq) : i # j => seq[i] # seq[j]

\* C15: invert_in_place (also when invert runs it on the clone) gathers every
\* node of the tree exactly once, whatever the order of the roots, and negates
\* the payload of every node at every level; it creates and removes no node,
\* so a coordinate without a level-0 node reads false before and after, and a
\* tree whose payloads are all true reads false at every coordinate afterwards.
InvertFlipsEveryNodeOnce ==
    last.op \in {"invert_in_place", "invert"} =>
        /\ \A order \in iter_roots(SelfBefore) :
              /\ NoDuplicates(all_nodes(SelfBefore, order, 1))
              /\ Range(all_nodes(SelfBefore, order, 1)) = DOMAIN SelfBefore.nodes
        /\ DOMAIN Inverted.nodes = DOMAIN SelfBefore.nodes
        /\ Inverted.roots = SelfBefore.roots
        /\ \A k \in DOMAIN SelfBefore.nodes : Inverted.nodes[k] = ~SelfBefore.nodes[k]
        /\ \A p \in Probes :
              find_node(SelfBefore, NodeKey(0, p)) = None =>
                  ~get_voxel(SelfBefore, p) /\ ~get_voxel(Inverted, p)
        /\ (\A k \in DOMAIN SelfBefore.nodes : SelfBefore.nodes[k]) =>
              \A p \in Probes : ~get_voxel(Inverted, p)

\* C15 witness: an inversion of a tree of height 3 with two roots, holding
\* true and false nodes at level 0 and above it, and lacking a node for some
\* coordinate.
InvertFlipsWitness ==
    /\ last.op \in {"invert_in_place", "invert"}
    /\ SelfBefore.height = 3
    /\ Cardinality(SelfBefore.roots) = 2
    /\ \E k, l, m, n \in DOMAIN SelfBefore.nodes :
          /\ k.level = 0 /\ SelfBefore.nodes[k] /\ ~Inverted.nodes[k]
          /\ l.level = 0 /\ ~SelfBefore.nodes[l] /\ Inverted.nodes[l]
          /\ m.level > 0 /\ SelfBefore.nodes[m] /\ ~Inverted.nodes[m]
          /\ n.level > 0 /\ ~SelfBefore.nodes[n] /\ Inverted.nodes[n]
    /\ \E p \in Coords : find_node(SelfBefore, NodeKey(0, p)) = None

\* C16: in every step, each constructed tree keeps its height and all of its
\* node keys; fill_cube only adds keys, and invert_in_place leaves the set of
\* keys (and of roots) of its tree exactly as it was.
KeysNeverShrink ==
    [][\A i \in Slots :
          constructed(i) =>
              /\ trees'[i].height = trees[i].height
              /\ DOMAIN trees[i].nodes \subseteq DOMAIN trees'[i].nodes
              /\ trees[i].roots \subseteq trees'[i].roots
              /\ (last'.op = "invert_in_place" /\ last'.self = i) =>
                    /\ DOMAIN trees'[i].nodes = DOMAIN trees[i].nodes
                    /\ trees'[i].roots = trees[i].roots]_vars

\* C16 witness: the third operation on a tree that was filled and inverted is
\* a fill that adds nodes to it; the nodes the invert made false are still there.
KeysGrowWitness ==
    /\ last.op = "fill_cube"
    /\ ops = MaxOps
    /\ Created # {}
    /\ SelfBefore.nodes # EmptyNodes
    /\ \A k \in DOMAIN SelfBefore.nodes : ~SelfBefore.nodes[k] /\ k \in DOMAIN trees[last.self].nodes

\* The node one level above key.
parent_key(key) == NodeKey(key.level + 1, ancestor_coordinates(key.coordinates, 1))

\* The roots from which the depth-first descent reaches key.
roots_reaching(t, key) == {r \in t.roots : key \in Range(visit_tree_depth_first(t, r, 0))}

\* No orphaned gaps in t: the roots are nodes of the root level, every other
\* node has its parent, every node has a payload, and every level-0 node is
\* reached from exactly one root.
NoOrphans(t) ==
    /\ t.roots \subseteq DOMAIN t.nodes
    /\ \A k \in DOMAIN t.nodes :
          /\ k.level \in 0 .. root_level(t)
          /\ k.level = root_level(t) => k \in t.roots
          /\ k.level < root_level(t) => parent_key(k) \in DOMAIN t.nodes
          /\ get_value(t, k) # None /\ Unwrap(get_value(t, k)) \in BOOLEAN
          /\ k.level = 0 => Cardinality(roots_reaching(t, k)) = 1

\* C17: every tree of the caller and every tree a call returned has no
\* orphaned gaps: each node below the root level has its parent one level up,
\* each level-0 node is reached by descent from exactly one root, and each
\* node carries a payload.
NoOrphanedGaps ==
    /\ \A i \in Slots : NoOrphans(trees[i])
    /\ NoOrphans(last.result)

\* C17 witness: a tree of height 3 with two roots, leaves under each of them
\* and a node between every leaf and its root.
NoOrphanedGapsWitness ==
    \E i \in Slots :
        /\ trees[i].height = 3
        /\ Cardinality(trees[i].roots) = 2
        /\ \A r \in trees[i].roots :
              \E k \in DOMAIN trees[i].nodes :
                  /\ k.level = 0 /\ roots_reaching(trees[i], k) = {r}
                  /\ parent_key(k) \in DOMAIN trees[i].nodes /\ parent_key(parent_key(k)) = r

\* The trees with the node keys and the level-0 payloads of t and any
\* payloads at the levels above 0.
InternalVariants(t) ==
    LET internal == {k \in DOMAIN t.nodes : k.level > 0}
    IN  {[t EXCEPT !.nodes = [k \in DOMAIN t.nodes |->
                                 IF k.level > 0 THEN k \in on ELSE t.nodes[k]]] :
            on \in SUBSET internal}

\* C18: with the payloads at the levels above 0 replaced by any others, in
\* either input, get_voxel reads the same at every coordinate, union,
\* intersection and difference return the same tree (so the same read at
\* every coordinate), and the export emits the same points in the same order.
InternalPayloadsUnobservable ==
    /\ last.op \in {"fill_cube", "invert_in_place"} =>
          \A v \in InternalVariants(trees[last.self]) :
              \A p \in Probes : get_voxel(v, p) = get_voxel(trees[last.self], p)
    /\ last.op = "union" =>
          \A v \in InternalVariants(SelfBefore), w \in InternalVariants(OtherBefore) :
              \A o1 \in iter_roots(v), o2 \in iter_roots(w) :
                  union(v, w, o1, o2).result = last.result
    /\ last.op = "intersection" =>
          \A v \in InternalVariants(SelfBefore), w \in InternalVariants(OtherBefore) :
              \A o1 \in iter_roots(v) :
                  intersection(v, w, o1).result = last.result
    /\ last.op = "difference" =>
          \A v \in InternalVariants(SelfBefore), w \in InternalVariants(OtherBefore) :
              \A o1 \in iter_roots(v) :
                  difference(v, w, o1).result = last.result
    /\ last.op = "save" =>
          \A v \in InternalVariants(last.result) :
              \A order \in iter_roots(v) :
                  save_to_magicavoxel(v, order) = save_to_magicavoxel(last.result, order)

\* C18 witness: a union whose first input has a true leaf below a node that an
\* invert had turned false, and a false leaf below it as well; the result has
\* the true leaf.
InternalPayloadsWitness ==
    /\ last.op = "union"
    /\ \E p, q \in Coords :
          /\ get_voxel(SelfBefore, p) /\ get_voxel(last.result, p)
          /\ stored_false(SelfBefore, q) /\ ~get_voxel(last.result, q)
          /\ \E k \in path_keys(SelfBefore, NodeKey(0, p)) :
                k.level > 0 /\ ~SelfBefore.nodes[k]
====
